---- MODULE Spec2Model ----
(***************************************************************************)
(* Matchmaking and ranking engine of Gaming-Arena: the Matchmaker          *)
(* (services/Matchmaker.h), the RankingService, the HistoryService and the *)
(* hand-written containers below them (AVLTree, Queue), as a state machine *)
(* whose actions are the public operations of the Matchmaker.              *)
(***************************************************************************)
EXTENDS Integers, Sequences, FiniteSets, TLC

VARIABLES players, queues, trees, matches, nextMatchId, histories, gameBots,
          nextPlayerId, serving, last

vars == <<players, queues, trees, matches, nextMatchId, histories, gameBots,
          nextPlayerId, serving, last>>

\* ------------------------------------------------------------------ bounds

\* Matches created in one run (nextMatchId is unbounded in the code).
MaxMatches == 1

\* The matches a run of SpecCross creates.
MaxMatchesCross == 3

\* The matches a run of SpecBots creates.
MaxMatchesBots == 4

\* The calls of updateRankings in one run of SpecElo.
MaxUpdates == 3

\* The profiles a run of SpecReg creates (nextPlayerId is unbounded in the code).
MaxProfiles == 3

\* The matches a run of SpecJoin creates.
MaxMatchesJoin == 2

\* The matches after which a run of SpecLoop takes no more joins.
MaxMatchesLoop == 2

\* The matches a run of SpecOrder creates.
MaxMatchesOrder == 2

\* The matches a run of SpecFrame creates.
MaxMatchesFrame == 4

\* The nodes a Queue of SpecQueue holds at most.
MaxQueueLen == 4

\* ------------------------------------------------------- program constants

BOT_ID_START == 1000
K_FACTOR == 32
MAX_RECENT_OPPONENTS == 3

\* The three games getQueueForGame / getTreeForGame / getBotsForGame know.
Games == {"pingpong", "snake", "tank"}

\* A game name none of the three strcmp branches accepts.
UnknownGame == "chess"

\* initializeBots: one bot per game here (the code seeds five), ids from
\* BOT_ID_START in game order; bots[g] is the array registerBot filled.
bots == [g \in Games |->
           IF g = "pingpong" THEN <<BOT_ID_START>>
           ELSE IF g = "snake" THEN <<BOT_ID_START + 1>>
           ELSE <<BOT_ID_START + 2>>]

BotIds == {BOT_ID_START, BOT_ID_START + 1, BOT_ID_START + 2}

\* Human ids: nextPlayerId starts one past the last bot id.
H1 == BOT_ID_START + 4
H2 == BOT_ID_START + 5
H3 == BOT_ID_START + 6

HumanIds == {H1, H2, H3}

PlayerIds == BotIds \cup HumanIds

\* The names the players are created with: "BOT_n" for the bots, the display
\* names the humans registered under.
usernames ==
    [id \in PlayerIds |->
       IF id = BOT_ID_START THEN "BOT_1"
       ELSE IF id = BOT_ID_START + 1 THEN "BOT_2"
       ELSE IF id = BOT_ID_START + 2 THEN "BOT_3"
       ELSE IF id = H1 THEN "ann"
       ELSE IF id = H2 THEN "bob" ELSE "cat"]

\* What the server's listen loop is doing: blocked in accept(), or inside
\* handle_client with the request it read and the steps of it already done.
Request(kind, playerId, gameName, step) ==
    [kind |-> kind, player |-> playerId, game |-> gameName, step |-> step]

Idle == Request("accept", 0, "", 0)

\* A local variable: F applied to the value v it is initialised with.
With(v, F(_)) == CHOOSE y \in {F(x) : x \in {v}} : TRUE

\* ------------------------------------------------------------ PlayerELO

PlayerELO(e, id) == [elo |-> e, playerId |-> id]

\* PlayerELO::operator<
Less(a, b) == IF a.elo # b.elo THEN a.elo < b.elo ELSE a.playerId < b.playerId

\* PlayerELO::operator- followed by the callers' "if (diff < 0) diff = -diff"
AbsDiff(a, b) == IF a.elo - b.elo < 0 THEN b.elo - a.elo ELSE a.elo - b.elo

\* ------------------------------------------------------------- AVLTree

\* A null Node* is the record of height 0 (getHeight(nullptr) == 0).
NullNode == [height |-> 0]

IsNull(node) == node.height = 0

NewNode(value) == [data |-> value, left |-> NullNode, right |-> NullNode, height |-> 1]

getHeight(node) == node.height

getBalance(node) == IF IsNull(node) THEN 0 ELSE getHeight(node.left) - getHeight(node.right)

updateHeight(node) ==
    [node EXCEPT !.height =
        1 + (IF getHeight(node.left) > getHeight(node.right)
             THEN getHeight(node.left) ELSE getHeight(node.right))]

rotateRight(y) ==
    LET x  == y.left
        T2 == x.right
        y2 == updateHeight([y EXCEPT !.left = T2])
    IN  updateHeight([x EXCEPT !.right = y2])

rotateLeft(x) ==
    LET y  == x.right
        T2 == y.left
        x2 == updateHeight([x EXCEPT !.right = T2])
    IN  updateHeight([y EXCEPT !.left = x2])

\* balance without the rotations: the height is updated and nothing else.
balanceHeightOnly(node0) ==
    IF IsNull(node0) THEN NullNode ELSE updateHeight(node0)

balance(node0) ==
    IF IsNull(node0) THEN NullNode
    ELSE With(updateHeight(node0), LAMBDA node :
         With(getBalance(node), LAMBDA balanceFactor :
           IF balanceFactor > 1
           THEN IF getBalance(node.left) < 0
                THEN rotateRight([node EXCEPT !.left = rotateLeft(node.left)])
                ELSE rotateRight(node)
           ELSE IF balanceFactor < -1
           THEN IF getBalance(node.right) > 0
                THEN rotateLeft([node EXCEPT !.right = rotateRight(node.right)])
                ELSE rotateLeft(node)
           ELSE node))

RECURSIVE findMin(_)
findMin(node) == IF ~IsNull(node) /\ ~IsNull(node.left) THEN findMin(node.left) ELSE node

RECURSIVE insertNode(_, _)
insertNode(node, value) ==
    IF IsNull(node) THEN NewNode(value)
    ELSE IF Less(value, node.data)
         THEN balance([node EXCEPT !.left = insertNode(node.left, value)])
    ELSE IF Less(node.data, value)
         THEN balance([node EXCEPT !.right = insertNode(node.right, value)])
    ELSE node

RECURSIVE removeNode(_, _)
removeNode(node, value) ==
    IF IsNull(node) THEN NullNode
    ELSE IF Less(value, node.data)
         THEN balance([node EXCEPT !.left = removeNode(node.left, value)])
    ELSE IF Less(node.data, value)
         THEN balance([node EXCEPT !.right = removeNode(node.right, value)])
    ELSE IF IsNull(node.left) \/ IsNull(node.right)
         THEN (IF ~IsNull(node.left) THEN node.left ELSE node.right)
    ELSE LET successor == findMin(node.right)
         IN  balance([node EXCEPT !.data  = successor.data,
                                  !.right = removeNode(node.right, successor.data)])

RECURSIVE searchNode(_, _)
searchNode(node, value) ==
    IF IsNull(node) THEN NullNode
    ELSE IF Less(value, node.data) THEN searchNode(node.left, value)
    ELSE IF Less(node.data, value) THEN searchNode(node.right, value)
    ELSE node

\* An AVLTree object: root and the nodeCount field size() returns.
EmptyTree == [root |-> NullNode, nodeCount |-> 0]

\* insert: insertNode counts a node exactly when the descent ends on nullptr.
TreeInsert(tree, value) ==
    [root      |-> insertNode(tree.root, value),
     nodeCount |-> IF IsNull(searchNode(tree.root, value))
                   THEN tree.nodeCount + 1 ELSE tree.nodeCount]

\* remove: removeNode uncounts a node exactly when the descent finds the value.
TreeRemove(tree, value) ==
    [root      |-> removeNode(tree.root, value),
     nodeCount |-> IF IsNull(searchNode(tree.root, value))
                   THEN tree.nodeCount ELSE tree.nodeCount - 1]

TreeSize(tree) == tree.nodeCount

\* best == nullptr, bestDiff == -1 at the start of findClosestExcluding.
NoBest == [best |-> PlayerELO(0, -1), bestDiff |-> -1]

RECURSIVE findClosestExcludingHelper(_, _, _, _)
findClosestExcludingHelper(node, target, excluded, acc) ==
    IF IsNull(node) THEN acc
    ELSE LET isExcluded == ~Less(node.data, excluded) /\ ~Less(excluded, node.data)
             diff == AbsDiff(node.data, target)
             acc1 == IF ~isExcluded /\ (acc.bestDiff < 0 \/ diff < acc.bestDiff)
                     THEN [best |-> node.data, bestDiff |-> diff]
                     ELSE acc
         IN  IF Less(target, node.data)
             THEN LET acc2 == findClosestExcludingHelper(node.left, target, excluded, acc1)
                  IN  IF acc2.bestDiff < 0 \/ ~IsNull(node.right)
                      THEN findClosestExcludingHelper(node.right, target, excluded, acc2)
                      ELSE acc2
             ELSE LET acc2 == findClosestExcludingHelper(node.right, target, excluded, acc1)
                  IN  IF acc2.bestDiff < 0 \/ ~IsNull(node.left)
                      THEN findClosestExcludingHelper(node.left, target, excluded, acc2)
                      ELSE acc2

\* findClosestExcluding as it would be if the excluded value were not skipped.
findClosestExcludingNothing(tree, target, excluded) ==
    IF IsNull(tree.root) THEN NoBest.best
    ELSE findClosestExcludingHelper(tree.root, target, NoBest.best, NoBest).best

\* Returns the entry found; playerId -1 stands for the nullptr result.
findClosestExcluding(tree, target, excluded) ==
    IF IsNull(tree.root) THEN NoBest.best
    ELSE findClosestExcludingHelper(tree.root, target, excluded, NoBest).best

\* closest == nullptr, minDiff == 0 at the start of findClosest.
NoClosest == [closest |-> PlayerELO(0, -1), minDiff |-> 0]

\* findClosestHelper as it would be without the tie-breaker branch.
RECURSIVE findClosestHelperNoTie(_, _, _)
findClosestHelperNoTie(node, target, acc) ==
    IF IsNull(node) THEN acc
    ELSE With(IF acc.closest.playerId = -1 \/ AbsDiff(node.data, target) < acc.minDiff
              THEN [closest |-> node.data, minDiff |-> AbsDiff(node.data, target)]
              ELSE acc,
              LAMBDA acc1 :
                IF Less(target, node.data)
                THEN findClosestHelperNoTie(node.left, target, acc1)
                ELSE IF Less(node.data, target)
                     THEN findClosestHelperNoTie(node.right, target, acc1)
                     ELSE acc1)

RECURSIVE findClosestHelper(_, _, _)
findClosestHelper(node, target, acc) ==
    IF IsNull(node) THEN acc
    ELSE With(IF acc.closest.playerId = -1 \/ AbsDiff(node.data, target) < acc.minDiff
              THEN [closest |-> node.data, minDiff |-> AbsDiff(node.data, target)]
              ELSE IF AbsDiff(node.data, target) = acc.minDiff
                      /\ Less(node.data, acc.closest)
                   THEN [acc EXCEPT !.closest = node.data]
                   ELSE acc,
              LAMBDA acc1 :
                IF Less(target, node.data)
                THEN findClosestHelper(node.left, target, acc1)
                ELSE IF Less(node.data, target)
                     THEN findClosestHelper(node.right, target, acc1)
                     ELSE acc1)

\* Returns the entry found; playerId -1 stands for the nullptr result.
findClosest(tree, target) ==
    IF IsNull(tree.root) THEN NoClosest.closest
    ELSE findClosestHelper(tree.root, target, NoClosest).closest

\* In-order contents of a subtree (inOrderHelper with a collecting callback).
RECURSIVE inOrder(_)
inOrder(node) ==
    IF IsNull(node) THEN <<>>
    ELSE inOrder(node.left) \o <<node.data>> \o inOrder(node.right)

TreeEntries(tree) == {inOrder(tree.root)[i] : i \in 1..Len(inOrder(tree.root))}

\* A traversal visiting the entries in ascending order.
reverseInOrderAscending(node) == inOrder(node)

\* The entries in the order reverseInOrderHelper hands them to its callback.
RECURSIVE reverseInOrder(_)
reverseInOrder(node) ==
    IF IsNull(node) THEN <<>>
    ELSE reverseInOrder(node.right) \o <<node.data>> \o reverseInOrder(node.left)

\* --------------------------------------------------------------- Queue

\* A Queue<QueueEntry> is the sequence of its entries' player ids, front first
\* (QueueEntry::operator== compares playerId only; joinTime is never read).
enqueue(q, id) == Append(q, id)

QueueContains(q, id) == \E i \in 1..Len(q) : q[i] = id

\* Queue::remove: unlinks the first node whose entry equals the value.
QueueRemove(q, id) ==
    IF ~QueueContains(q, id) THEN q
    ELSE LET k == CHOOSE i \in 1..Len(q) : q[i] = id /\ \A j \in 1..(i - 1) : q[j] # id
         IN  SubSeq(q, 1, k - 1) \o SubSeq(q, k + 1, Len(q))

\* The Queue as the code builds it: the Node objects on the heap by address
\* (0 is nullptr), frontNode, rearNode and queueSize.
EmptyList == [nodes |-> <<>>, frontNode |-> 0, rearNode |-> 0, queueSize |-> 0]

\* Queue::enqueue, with addr the address new Node returns.
listEnqueue(q, addr, value) ==
    [nodes     |-> [a \in DOMAIN q.nodes \cup {addr} |->
                      IF a = addr THEN [data |-> value, next |-> 0]
                      ELSE IF q.frontNode # 0 /\ a = q.rearNode
                           THEN [q.nodes[a] EXCEPT !.next = addr]
                      ELSE q.nodes[a]],
     frontNode |-> IF q.frontNode = 0 THEN addr ELSE q.frontNode,
     rearNode  |-> addr,
     queueSize |-> q.queueSize + 1]

\* The heap after delete toDelete.
listDelete(nodes, toDelete) == [a \in DOMAIN nodes \ {toDelete} |-> nodes[a]]

\* Unlinking the front node: the start of dequeue and remove's special case.
listPopFront(q) ==
    With(q.nodes[q.frontNode].next, LAMBDA next :
      [nodes     |-> listDelete(q.nodes, q.frontNode),
       frontNode |-> next,
       rearNode  |-> IF next = 0 THEN 0 ELSE q.rearNode,
       queueSize |-> q.queueSize - 1])

\* Queue::dequeue: the queue after it, what it returns and outValue.
listDequeue(q) ==
    IF q.frontNode = 0 THEN [q |-> q, ret |-> FALSE, outValue |-> 0]
    ELSE [q |-> listPopFront(q), ret |-> TRUE, outValue |-> q.nodes[q.frontNode].data]

\* The search loop of Queue::remove from current on.
RECURSIVE listScan(_, _, _)
listScan(q, current, value) ==
    With(q.nodes[current].next, LAMBDA next :
      IF next # 0 /\ q.nodes[next].data # value
      THEN listScan(q, next, value)
      ELSE current)

\* A remove that leaves rearNode as it is.
rearAfterRemoveStale(q, toDelete, current) == q.rearNode

\* rearNode after remove unlinked toDelete, the node after current.
rearAfterRemove(q, toDelete, current) ==
    IF toDelete = q.rearNode THEN current ELSE q.rearNode

\* Queue::remove: the queue after it and what it returns.
listRemove(q, value) ==
    IF q.frontNode = 0 THEN [q |-> q, ret |-> FALSE]
    ELSE IF q.nodes[q.frontNode].data = value
         THEN [q |-> listPopFront(q), ret |-> TRUE]
    ELSE With(listScan(q, q.frontNode, value), LAMBDA current :
         With(q.nodes[current].next, LAMBDA toDelete :
           IF toDelete # 0
           THEN [q |-> [nodes |-> [a \in DOMAIN q.nodes \ {toDelete} |->
                                     IF a = current
                                     THEN [q.nodes[a] EXCEPT
                                             !.next = q.nodes[toDelete].next]
                                     ELSE q.nodes[a]],
                        frontNode |-> q.frontNode,
                        rearNode  |-> rearAfterRemove(q, toDelete, current),
                        queueSize |-> q.queueSize - 1],
                 ret |-> TRUE]
           ELSE [q |-> q, ret |-> FALSE]))

\* The entries of the nodes linked from address a on, in link order.
RECURSIVE listFrom(_, _)
listFrom(q, a) ==
    IF a = 0 \/ a \notin DOMAIN q.nodes THEN <<>>
    ELSE <<q.nodes[a].data>> \o listFrom(q, q.nodes[a].next)

\* -------------------------------------------------------------- Player

\* Player::Player(id, name, startingElo, bot).
\* strncpy(username, name, 49); username[49] = '\0'.
Username(name) == IF Len(name) > 49 THEN SubSeq(name, 1, 49) ELSE name

NewPlayer(name, startingElo, bot) ==
    [username |-> Username(name), elo |-> startingElo, wins |-> 0, losses |-> 0, preferredGame |-> "",
     isInQueue |-> FALSE, isInMatch |-> FALSE, isBot |-> bot,
     recentOpponents |-> [i \in 1..MAX_RECENT_OPPONENTS |-> -1],
     recentOpponentCount |-> 0]

addRecentOpponent(player, opponentId) ==
    [player EXCEPT
       !.recentOpponents = [i \in 1..MAX_RECENT_OPPONENTS |->
                              IF i = 1 THEN opponentId ELSE player.recentOpponents[i - 1]],
       !.recentOpponentCount = IF player.recentOpponentCount < MAX_RECENT_OPPONENTS
                               THEN player.recentOpponentCount + 1
                               ELSE player.recentOpponentCount]

wasRecentOpponent(player, opponentId) ==
    \E i \in 1..player.recentOpponentCount : player.recentOpponents[i] = opponentId

\* --------------------------------------------------------------- Match

\* A match constructed with the id 1 whatever id it is given.
NewMatchFirstId(id, p1, p2, game) ==
    [matchId |-> 1, player1Id |-> p1, player2Id |-> p2, gameName |-> game,
     winnerId |-> 0, isCompleted |-> FALSE]

NewMatch(id, p1, p2, game) ==
    [matchId |-> id, player1Id |-> p1, player2Id |-> p2, gameName |-> game,
     winnerId |-> 0, isCompleted |-> FALSE]

complete(match, winner) == [match EXCEPT !.winnerId = winner, !.isCompleted = TRUE]

\* ------------------------------------------------------- RankingService

\* The engine state the services share, as one record st:
\*   players (playerStorage), queues, trees, matches (activeMatches),
\*   nextMatchId, histories (playerHistories).

\* K_FACTOR * (actualScore - expectedScore) truncated to int, tabulated from the
\* float arithmetic of calculateExpectedScore / calculateNewElo: the winner's
\* gain as a step function of d = winnerElo - loserElo (exact for |d| <= 3000);
\* the gain drops by one at each threshold d reaches.
EloSteps ==
    <<-596, -470, -394, -338, -292, -254, -221, -190, -162, -136, -112, -88, -65,
      -43, -21, 1, 22, 44, 66, 89, 113, 137, 163, 191, 222, 255, 293, 339, 395,
      471, 597>>

WinnerGain(winnerOldElo, loserOldElo) ==
    (K_FACTOR - 1)
      - Cardinality({i \in 1..Len(EloSteps) : winnerOldElo - loserOldElo >= EloSteps[i]})

\* calculateNewElo(winnerOldElo, calculateExpectedScore(winnerOldElo, loserOldElo), 1.0f)
calculateNewEloWinner(winnerOldElo, loserOldElo) ==
    winnerOldElo + WinnerGain(winnerOldElo, loserOldElo)

\* calculateNewElo leaving the loser's rating as it was.
calculateNewEloLoserUnchanged(loserOldElo, winnerOldElo) == loserOldElo

\* calculateNewElo(loserOldElo, calculateExpectedScore(loserOldElo, winnerOldElo), 0.0f):
\* the truncated loss has the magnitude of the winner's gain at every difference.
calculateNewEloLoser(loserOldElo, winnerOldElo) ==
    loserOldElo - WinnerGain(winnerOldElo, loserOldElo)

addPlayerToRanking(st, playerId, gameName) ==
    IF playerId \notin DOMAIN st.players THEN st
    ELSE IF gameName \notin Games THEN st
    ELSE [st EXCEPT !.trees[gameName] =
             TreeInsert(@, PlayerELO(st.players[playerId].elo, playerId))]

removePlayerFromRanking(st, playerId, elo, gameName) ==
    IF gameName \notin Games THEN st
    ELSE [st EXCEPT !.trees[gameName] = TreeRemove(@, PlayerELO(elo, playerId))]

updateRankings(st, winnerId, loserId, gameName) ==
    IF winnerId \notin DOMAIN st.players \/ loserId \notin DOMAIN st.players THEN st
    ELSE IF gameName \notin Games THEN st
    ELSE LET winnerOldElo == st.players[winnerId].elo
             loserOldElo  == st.players[loserId].elo
             tree1 == TreeRemove(TreeRemove(st.trees[gameName],
                                            PlayerELO(winnerOldElo, winnerId)),
                                 PlayerELO(loserOldElo, loserId))
             \* winner and loser point into playerStorage: the writes land in order
             p1 == [st.players EXCEPT ![winnerId].elo =
                        calculateNewEloWinner(winnerOldElo, loserOldElo)]
             p2 == [p1 EXCEPT ![loserId].elo =
                        calculateNewEloLoser(loserOldElo, winnerOldElo)]
             p3 == [p2 EXCEPT ![winnerId].wins = @ + 1]
             p4 == [p3 EXCEPT ![loserId].losses = @ + 1]
             tree2 == TreeInsert(TreeInsert(tree1, PlayerELO(p4[winnerId].elo, winnerId)),
                                 PlayerELO(p4[loserId].elo, loserId))
         IN  [st EXCEPT !.players = p4, !.trees[gameName] = tree2]

\* The callback of getLeaderboard applied to the visited entries from index
\* i on: an entry is stored while count < maxCount.
RECURSIVE leaderboardLoop(_, _, _, _)
leaderboardLoop(visited, i, maxCount, out) ==
    IF i > Len(visited) THEN out
    ELSE leaderboardLoop(visited, i + 1, maxCount,
                         IF Len(out) < maxCount THEN Append(out, visited[i]) ELSE out)

\* The entries written to outPlayerIds / outElos, in array order; the count
\* returned is their number.
getLeaderboard(st, gameName, maxCount) ==
    IF gameName \notin Games THEN <<>>
    ELSE leaderboardLoop(reverseInOrder(st.trees[gameName].root), 1, maxCount, <<>>)

\* Returns the opponent's id, or -1.
findClosestOpponent(st, playerId, gameName) ==
    IF playerId \notin DOMAIN st.players THEN -1
    ELSE IF gameName \notin Games THEN -1
    ELSE IF TreeSize(st.trees[gameName]) < 2 THEN -1
    ELSE LET target == PlayerELO(st.players[playerId].elo, playerId)
         IN  findClosestExcluding(st.trees[gameName], target, target).playerId

\* ------------------------------------------------------- HistoryService

recordMatch(st, match) ==
    LET h1 == [st.histories EXCEPT ![match.player1Id] = Append(@, match)]
        h2 == [h1 EXCEPT ![match.player2Id] = Append(@, match)]
    IN  [st EXCEPT !.histories = h2]


\* ----------------------------------------------------------- Matchmaker

\* Every operation below maps the engine state st to [st |-> the state it
\* leaves, ret |-> what it returns] (bool as TRUE/FALSE, ids as integers).

Result(st, ret) == [st |-> st, ret |-> ret]

getQueueSize(st, gameName) == IF gameName \in Games THEN Len(st.queues[gameName]) ELSE 0

\* joinQueue as it would be without the test of isInQueue and isInMatch.
joinQueueUnchecked(st, playerId, gameName) ==
    IF playerId \notin DOMAIN st.players THEN Result(st, FALSE)
    ELSE IF gameName \notin Games THEN Result(st, FALSE)
    ELSE LET st1 == [st EXCEPT !.queues[gameName] = enqueue(@, playerId)]
             st2 == [st1 EXCEPT !.players[playerId].isInQueue = TRUE,
                                !.players[playerId].preferredGame = gameName]
         IN  Result(addPlayerToRanking(st2, playerId, gameName), TRUE)

joinQueue(st, playerId, gameName) ==
    IF playerId \notin DOMAIN st.players THEN Result(st, FALSE)
    ELSE IF st.players[playerId].isInQueue \/ st.players[playerId].isInMatch
         THEN Result(st, FALSE)
    ELSE IF gameName \notin Games THEN Result(st, FALSE)
    ELSE LET st1 == [st EXCEPT !.queues[gameName] = enqueue(@, playerId)]
             st2 == [st1 EXCEPT !.players[playerId].isInQueue = TRUE,
                                !.players[playerId].preferredGame = gameName]
         IN  Result(addPlayerToRanking(st2, playerId, gameName), TRUE)

leaveQueue(st, playerId, gameName) ==
    IF playerId \notin DOMAIN st.players THEN Result(st, FALSE)
    ELSE IF ~st.players[playerId].isInQueue THEN Result(st, FALSE)
    ELSE IF gameName \notin Games THEN Result(st, FALSE)
    ELSE IF QueueContains(st.queues[gameName], playerId)
         THEN LET st1 == [st EXCEPT !.queues[gameName] = QueueRemove(@, playerId)]
                  st2 == [st1 EXCEPT !.players[playerId].isInQueue = FALSE]
              IN  Result(removePlayerFromRanking(st2, playerId,
                                                 st2.players[playerId].elo, gameName),
                         TRUE)
    ELSE Result(st, FALSE)

findClosestHumanOpponent(st, playerId, gameName) ==
    With(findClosestOpponent(st, playerId, gameName), LAMBDA opponentId :
      IF opponentId = -1 THEN -1
      ELSE IF opponentId \notin DOMAIN st.players THEN -1
      ELSE IF ~st.players[opponentId].isBot /\ st.players[opponentId].isInQueue
           THEN opponentId
      ELSE -1)

\* The loop of findClosestBotOpponent from index i on; acc carries bestBotId,
\* bestEloDiff, fallbackBotId and fallbackEloDiff.
RECURSIVE botLoop(_, _, _, _, _, _)
botLoop(st, botArray, i, humanPlayerId, targetElo, acc) ==
    IF i > Len(botArray) THEN acc
    ELSE LET botId == botArray[i]
         IN  IF botId \notin DOMAIN st.players \/ st.players[botId].isInMatch
             THEN botLoop(st, botArray, i + 1, humanPlayerId, targetElo, acc)
             ELSE LET raw == st.players[botId].elo - targetElo
                      eloDiff == IF raw < 0 THEN -raw ELSE raw
                      acc1 == IF eloDiff < acc.fallbackEloDiff
                              THEN [acc EXCEPT !.fallbackEloDiff = eloDiff,
                                               !.fallbackBotId = botId]
                              ELSE acc
                      acc2 == IF wasRecentOpponent(st.players[humanPlayerId], botId)
                              THEN acc1
                              ELSE IF eloDiff < acc1.bestEloDiff
                                   THEN [acc1 EXCEPT !.bestEloDiff = eloDiff,
                                                     !.bestBotId = botId]
                                   ELSE acc1
                  IN  botLoop(st, botArray, i + 1, humanPlayerId, targetElo, acc2)

\* findClosestBotOpponent taking the closest available bot whatever the
\* human's recent opponents.
findClosestBotOpponentAnyRecency(st, humanPlayerId, targetElo, gameName) ==
    IF gameName \notin Games THEN -1
    ELSE IF Len(st.gameBots[gameName]) = 0 THEN -1
    ELSE IF humanPlayerId \notin DOMAIN st.players THEN -1
    ELSE botLoop(st, st.gameBots[gameName], 1, humanPlayerId, targetElo,
                 [bestBotId |-> -1, bestEloDiff |-> 999999,
                  fallbackBotId |-> -1, fallbackEloDiff |-> 999999]).fallbackBotId

\* findClosestBotOpponent taking the first bot of the game whether or not it
\* is in a match.
findClosestBotOpponentFirst(st, humanPlayerId, targetElo, gameName) ==
    IF gameName \notin Games THEN -1
    ELSE IF Len(st.gameBots[gameName]) = 0 THEN -1
    ELSE IF humanPlayerId \notin DOMAIN st.players THEN -1
    ELSE st.gameBots[gameName][1]

\* findClosestBotOpponent without the fallback to the closest available bot.
findClosestBotOpponentNoFallback(st, humanPlayerId, targetElo, gameName) ==
    IF gameName \notin Games THEN -1
    ELSE IF Len(st.gameBots[gameName]) = 0 THEN -1
    ELSE IF humanPlayerId \notin DOMAIN st.players THEN -1
    ELSE botLoop(st, st.gameBots[gameName], 1, humanPlayerId, targetElo,
                 [bestBotId |-> -1, bestEloDiff |-> 999999,
                  fallbackBotId |-> -1, fallbackEloDiff |-> 999999]).bestBotId

findClosestBotOpponent(st, humanPlayerId, targetElo, gameName) ==
    IF gameName \notin Games THEN -1
    ELSE IF Len(st.gameBots[gameName]) = 0 THEN -1
    ELSE IF humanPlayerId \notin DOMAIN st.players THEN -1
    ELSE With(botLoop(st, st.gameBots[gameName], 1, humanPlayerId, targetElo,
                      [bestBotId |-> -1, bestEloDiff |-> 999999,
                       fallbackBotId |-> -1, fallbackEloDiff |-> 999999]),
              LAMBDA acc : IF acc.bestBotId = -1 THEN acc.fallbackBotId
                           ELSE acc.bestBotId)

createMatchBetween(st, player1Id, player2Id, gameName) ==
    IF player1Id \notin DOMAIN st.players \/ player2Id \notin DOMAIN st.players
    THEN Result(st, -1)
    ELSE LET \* player1 and player2 point into playerStorage: writes land in order
             pa == IF ~st.players[player1Id].isBot
                   THEN [st.players EXCEPT ![player1Id] = addRecentOpponent(@, player2Id)]
                   ELSE st.players
             pb == IF ~pa[player2Id].isBot
                   THEN [pa EXCEPT ![player2Id] = addRecentOpponent(@, player1Id)]
                   ELSE pa
             match == NewMatch(st.nextMatchId, player1Id, player2Id, gameName)
             pc == [pb EXCEPT ![player1Id].isInQueue = FALSE,
                              ![player1Id].isInMatch = TRUE]
             pd == [pc EXCEPT ![player2Id].isInQueue = FALSE,
                              ![player2Id].isInMatch = TRUE]
         IN  Result([st EXCEPT !.players = pd,
                               !.matches = [id \in (DOMAIN @) \cup {match.matchId} |->
                                              IF id = match.matchId THEN match ELSE @[id]],
                               !.nextMatchId = @ + 1],
                    match.matchId)

matchHumanWithBot(st, gameName) ==
    IF gameName \notin Games THEN Result(st, -1)
    ELSE IF Len(st.queues[gameName]) = 0 THEN Result(st, -1)
    ELSE With(Head(st.queues[gameName]), LAMBDA entry :
         With([st EXCEPT !.queues[gameName] = Tail(@)], LAMBDA st1 :
           IF entry \notin DOMAIN st1.players THEN Result(st1, -1)
           ELSE IF st1.players[entry].isBot
                THEN Result([st1 EXCEPT !.queues[gameName] = enqueue(@, entry)], -1)
           ELSE With(removePlayerFromRanking(st1, entry, st1.players[entry].elo,
                                             gameName), LAMBDA st2 :
                With(findClosestBotOpponent(st2, entry, st2.players[entry].elo,
                                            gameName), LAMBDA botId :
                  IF botId = -1
                  THEN With(addPlayerToRanking(st2, entry, gameName), LAMBDA st3 :
                         Result([st3 EXCEPT !.queues[gameName] = enqueue(@, entry)],
                                -1))
                  ELSE createMatchBetween(st2, entry, botId, gameName)))))

\* A tryCreateMatch that pairs a human with a bot only when the human waits
\* alone: with two or more entries and no human opponent the head is re-queued.
tryCreateMatchBotOnlyWhenAlone(st, gameName) ==
    IF gameName \notin Games THEN Result(st, -1)
    ELSE IF Len(st.queues[gameName]) = 0 THEN Result(st, -1)
    ELSE IF Len(st.queues[gameName]) = 1 THEN matchHumanWithBot(st, gameName)
    ELSE With(Head(st.queues[gameName]), LAMBDA entry1 :
         With([st EXCEPT !.queues[gameName] = Tail(@)], LAMBDA st1 :
           IF entry1 \notin DOMAIN st1.players THEN Result(st1, -1)
           ELSE IF st1.players[entry1].isBot
                THEN Result([st1 EXCEPT !.queues[gameName] = enqueue(@, entry1)], -1)
           ELSE With(removePlayerFromRanking(st1, entry1, st1.players[entry1].elo,
                                             gameName), LAMBDA st2 :
                With(findClosestHumanOpponent(st2, entry1, gameName),
                     LAMBDA opponentId :
                  IF opponentId = -1
                  THEN With(addPlayerToRanking(st2, entry1, gameName), LAMBDA st3 :
                         Result([st3 EXCEPT !.queues[gameName] = enqueue(@, entry1)],
                                -1))
                  ELSE With([st2 EXCEPT !.queues[gameName] =
                                            QueueRemove(@, opponentId)], LAMBDA st3 :
                       With(removePlayerFromRanking(
                                st3, opponentId, st3.players[opponentId].elo,
                                gameName), LAMBDA st4 :
                         createMatchBetween(st4, entry1, opponentId, gameName)))))))

tryCreateMatch(st, gameName) ==
    IF gameName \notin Games THEN Result(st, -1)
    ELSE IF Len(st.queues[gameName]) = 0 THEN Result(st, -1)
    ELSE IF Len(st.queues[gameName]) = 1 THEN matchHumanWithBot(st, gameName)
    ELSE With(Head(st.queues[gameName]), LAMBDA entry1 :
         With([st EXCEPT !.queues[gameName] = Tail(@)], LAMBDA st1 :
           IF entry1 \notin DOMAIN st1.players THEN Result(st1, -1)
           ELSE IF st1.players[entry1].isBot
                THEN Result([st1 EXCEPT !.queues[gameName] = enqueue(@, entry1)], -1)
           ELSE With(removePlayerFromRanking(st1, entry1, st1.players[entry1].elo,
                                             gameName), LAMBDA st2 :
                With(findClosestHumanOpponent(st2, entry1, gameName),
                     LAMBDA opponentId :
                  IF opponentId = -1
                  THEN With(addPlayerToRanking(st2, entry1, gameName), LAMBDA st3 :
                       With(findClosestBotOpponent(st3, entry1,
                                                   st3.players[entry1].elo, gameName),
                            LAMBDA botOpponentId :
                         IF botOpponentId = -1
                         THEN Result([st3 EXCEPT !.queues[gameName] =
                                                     enqueue(@, entry1)], -1)
                         ELSE createMatchBetween(st3, entry1, botOpponentId,
                                                 gameName)))
                  ELSE With([st2 EXCEPT !.queues[gameName] =
                                            QueueRemove(@, opponentId)], LAMBDA st3 :
                       With(removePlayerFromRanking(
                                st3, opponentId, st3.players[opponentId].elo,
                                gameName), LAMBDA st4 :
                         createMatchBetween(st4, entry1, opponentId, gameName)))))))

\* The while loop of processMatchmaking; ret counts the matches created.
RECURSIVE processLoop(_, _, _)
processLoop(st, gameName, matchesCreated) ==
    IF getQueueSize(st, gameName) >= 2
    THEN With(tryCreateMatch(st, gameName), LAMBDA r :
           IF r.ret = -1 THEN Result(r.st, matchesCreated)
           ELSE processLoop(r.st, gameName, matchesCreated + 1))
    ELSE Result(st, matchesCreated)

processMatchmaking(st, gameName) == processLoop(st, gameName, 0)

\* The outcome of one evaluation of the while loop of processMatchmaking:
\* the state, the count so far and whether the loop is left.
Iteration(st, matchesCreated, done) ==
    [st |-> st, matchesCreated |-> matchesCreated, done |-> done]

\* A loop without the break on a failed attempt.
processStepNoBreak(st, gameName, matchesCreated) ==
    IF getQueueSize(st, gameName) >= 2
    THEN With(tryCreateMatch(st, gameName), LAMBDA r :
           IF r.ret = -1 THEN Iteration(r.st, matchesCreated, FALSE)
           ELSE Iteration(r.st, matchesCreated + 1, FALSE))
    ELSE Iteration(st, matchesCreated, TRUE)

\* The loop test and, when it passes, one pass through the body.
processStep(st, gameName, matchesCreated) ==
    IF getQueueSize(st, gameName) >= 2
    THEN With(tryCreateMatch(st, gameName), LAMBDA r :
           IF r.ret = -1 THEN Iteration(r.st, matchesCreated, TRUE)
           ELSE Iteration(r.st, matchesCreated + 1, FALSE))
    ELSE Iteration(st, matchesCreated, TRUE)

\* What submitMatchResult does once its checks have passed.
applyMatchResult(st, matchId, winnerId) ==
    LET m0 == st.matches[matchId]
        loserId == IF winnerId = m0.player1Id THEN m0.player2Id ELSE m0.player1Id
    IN  With([st EXCEPT !.matches[matchId] = complete(@, winnerId)], LAMBDA st1 :
        With(updateRankings(st1, winnerId, loserId, m0.gameName), LAMBDA st2 :
        With(recordMatch(st2, st2.matches[matchId]), LAMBDA st3 :
        With([st3 EXCEPT !.players[winnerId].isInMatch = FALSE], LAMBDA st4 :
        With([st4 EXCEPT !.players[loserId].isInMatch = FALSE], LAMBDA st5 :
        With(addPlayerToRanking(st5, winnerId, m0.gameName), LAMBDA st6 :
          Result(addPlayerToRanking(st6, loserId, m0.gameName), TRUE)))))))

\* submitMatchResult as it would be without the test of isCompleted.
submitMatchResultRepeatable(st, matchId, winnerId) ==
    IF matchId \notin DOMAIN st.matches THEN Result(st, FALSE)
    ELSE IF winnerId # st.matches[matchId].player1Id
            /\ winnerId # st.matches[matchId].player2Id
         THEN Result(st, FALSE)
    ELSE applyMatchResult(st, matchId, winnerId)

\* submitMatchResult as it would be without the test of the winner.
submitMatchResultAnyWinner(st, matchId, winnerId) ==
    IF matchId \notin DOMAIN st.matches THEN Result(st, FALSE)
    ELSE IF st.matches[matchId].isCompleted THEN Result(st, FALSE)
    ELSE applyMatchResult(st, matchId, winnerId)

submitMatchResult(st, matchId, winnerId) ==
    IF matchId \notin DOMAIN st.matches THEN Result(st, FALSE)
    ELSE IF st.matches[matchId].isCompleted THEN Result(st, FALSE)
    ELSE IF winnerId # st.matches[matchId].player1Id
            /\ winnerId # st.matches[matchId].player2Id
         THEN Result(st, FALSE)
    ELSE applyMatchResult(st, matchId, winnerId)

\* The uncompleted matches holding the player; getPlayerActiveMatch returns
\* the id of one of them (the first in hash-bucket order), or -1.
ActiveMatchesOf(st, playerId) ==
    {id \in DOMAIN st.matches :
        /\ ~st.matches[id].isCompleted
        /\ (st.matches[id].player1Id = playerId \/ st.matches[id].player2Id = playerId)}


\* ------------------------------------------------------- the state machine

\* The engine state as the record the operations above work on.
State == [players |-> players, queues |-> queues, trees |-> trees,
          matches |-> matches, nextMatchId |-> nextMatchId, histories |-> histories,
          gameBots |-> gameBots, nextPlayerId |-> nextPlayerId, serving |-> serving]

Apply(st) ==
    /\ players' = st.players
    /\ queues' = st.queues
    /\ trees' = st.trees
    /\ matches' = st.matches
    /\ nextMatchId' = st.nextMatchId
    /\ histories' = st.histories
    /\ gameBots' = st.gameBots
    /\ nextPlayerId' = st.nextPlayerId
    /\ serving' = st.serving

\* The call just made: its name, arguments and return value (ok for the
\* bool-returning calls, ret for the int-returning ones).  Of a rejected call
\* less is kept: the player of a joinQueue, the match id of a
\* submitMatchResult, the name alone of a leaveQueue.
Call(op, player, game, matchId, winner, ok, ret) ==
    [op |-> op, player |-> player, game |-> game, matchId |-> matchId,
     winner |-> winner, ok |-> ok, ret |-> ret]

Rejected(op) == Call(op, 0, "", 0, 0, FALSE, 0)

\* The bots registerBot put in the arrays of pool, in array order.
PoolIds(pool) == UNION {{pool[g][i] : i \in DOMAIN pool[g]} : g \in Games}

\* The ranking tree of a game after addPlayerToRanking of the bots of botArray
\* from index i on.
RECURSIVE rankBots(_, _, _, _)
rankBots(tree, botArray, i, botElo) ==
    IF i > Len(botArray) THEN tree
    ELSE rankBots(TreeInsert(tree, PlayerELO(botElo[botArray[i]], botArray[i])),
                  botArray, i + 1, botElo)

\* After construction, the registration of the bots of pool (registerBot and
\* addPlayerToRanking, as initializeBots() does) and the registration of the
\* humans in registered (with the ratings startElo gives them): every bot is
\* in its game's ranking tree, nobody is queued, no match exists.  botElo gives
\* the ratings rand() seeded the bots with (800..1600).
InitEngine(pool, registered, startElo, botElo) ==
    /\ players = [id \in PoolIds(pool) \cup registered |->
                    IF id \in PoolIds(pool) THEN NewPlayer(usernames[id], botElo[id], TRUE)
                    ELSE NewPlayer(usernames[id], startElo[id], FALSE)]
    /\ trees = [g \in Games |-> rankBots(EmptyTree, pool[g], 1, botElo)]
    /\ queues = [g \in Games |-> <<>>]
    /\ matches = <<>>
    /\ nextMatchId = 1
    /\ histories = [id \in PlayerIds |-> <<>>]
    /\ gameBots = pool
    /\ nextPlayerId = H1 + Cardinality(registered)
    /\ serving = Idle

InitPool(pool, registered, startElo, botElo) ==
    /\ InitEngine(pool, registered, startElo, botElo)
    /\ last = Call("init", 0, "", 0, 0, TRUE, 0)

\* The engine with one bot a game.
InitWith(registered, startElo, botElo) == InitPool(bots, registered, startElo, botElo)

JoinQueue(playerId, gameName) ==
    LET r == joinQueue(State, playerId, gameName)
    IN  /\ Apply(r.st)
        /\ last' = IF r.ret THEN Call("joinQueue", playerId, gameName, 0, 0, TRUE, 0)
                   ELSE Call("joinQueue", playerId, "", 0, 0, FALSE, 0)

LeaveQueue(playerId, gameName) ==
    LET r == leaveQueue(State, playerId, gameName)
    IN  /\ Apply(r.st)
        /\ last' = IF r.ret THEN Call("leaveQueue", playerId, gameName, 0, 0, TRUE, 0)
                   ELSE Rejected("leaveQueue")

\* cap bounds the matches a run creates.
TryCreateMatch(gameName, cap) ==
    LET r == tryCreateMatch(State, gameName)
    IN  /\ r.st.nextMatchId <= cap + 1
        /\ Apply(r.st)
        /\ last' = Call("tryCreateMatch", 0, gameName, 0, 0, r.ret # -1, r.ret)

ProcessMatchmaking(gameName, cap) ==
    LET r == processMatchmaking(State, gameName)
    IN  /\ r.st.nextMatchId <= cap + 1
        /\ Apply(r.st)
        /\ last' = Call("processMatchmaking", 0, gameName, 0, 0, TRUE, r.ret)

SubmitMatchResult(matchId, winnerId) ==
    LET r == submitMatchResult(State, matchId, winnerId)
    IN  /\ Apply(r.st)
        /\ last' = IF r.ret
                   THEN Call("submitMatchResult", 0, "", matchId, winnerId, TRUE, 0)
                   ELSE Call("submitMatchResult", 0, "", matchId, 0, FALSE, 0)

\* The calls a client makes: joins and leaves are sets of <<player, game>>,
\* results a set of <<matchId, winnerId>>, games the games matched for.
NextWith(joins, leaves, games, results, cap) ==
    \/ \E c \in joins : JoinQueue(c[1], c[2])
    \/ \E c \in leaves : LeaveQueue(c[1], c[2])
    \/ \E g \in games : TryCreateMatch(g, cap)
    \/ \E g \in games : ProcessMatchmaking(g, cap)
    \/ \E c \in results : SubmitMatchResult(c[1], c[2])

\* --- Spec: two registered humans (H3 has no profile); the calls name two
\* of the games and a game the engine does not know.

StartElo == [id \in HumanIds |-> IF id = H1 THEN 1000 ELSE IF id = H2 THEN 1020 ELSE 1030]

\* Ratings rand() may have given the bots (800..1600): between the humans'.
BotElo == [id \in BotIds |-> 1010]

CalledGames == {"pingpong", "snake", UnknownGame}

Init == InitWith({H1, H2}, StartElo, BotElo)

Next ==
    NextWith(HumanIds \X CalledGames,
             HumanIds \X CalledGames,
             CalledGames,
             (1..(MaxMatches + 1)) \X PlayerIds,
             MaxMatches)

Spec == Init /\ [][Next]_vars

\* --- SpecCross: three registered humans queue for pingpong; H2 also plays
\* snake and wins its matches.

CrossCalls == ({H1, H3} \X {"pingpong"}) \cup ({H2} \X {"pingpong", "snake"})

InitCross == InitWith(HumanIds, StartElo, BotElo)

NextCross ==
    NextWith(CrossCalls, {<<H1, "pingpong">>, <<H2, "snake">>}, {"pingpong", "snake"},
             (1..MaxMatchesCross) \X {H2}, MaxMatchesCross)

SpecCross == InitCross /\ [][NextCross]_vars

\* --- SpecTree: one AVLTree<PlayerELO> (pingpong's) grown and shrunk by
\* insert and remove and searched by findClosest and findClosestExcluding;
\* no player is registered and nothing else moves.

TreeElos == {900, 1000, 1100, 1300}

TreeValues == {PlayerELO(e, id) : e \in TreeElos, id \in {H1, H2}}

TreeTargets == {PlayerELO(e, H1) : e \in {1000, 1050}}

\* The tree operation just called, with its arguments and what it returned.
TreeCall(op, value, excluded, found) ==
    [op |-> op, value |-> value, excluded |-> excluded, found |-> found]

InitTree ==
    /\ players = <<>>
    /\ trees = [g \in Games |-> EmptyTree]
    /\ queues = [g \in Games |-> <<>>]
    /\ matches = <<>>
    /\ nextMatchId = 1
    /\ histories = [id \in PlayerIds |-> <<>>]
    /\ gameBots = [g \in Games |-> <<>>]
    /\ nextPlayerId = H1
    /\ serving = Idle
    /\ last = Call("init", 0, "", 0, 0, TRUE, 0)

AvlInsert(value) ==
    /\ trees' = [trees EXCEPT !["pingpong"] = TreeInsert(@, value)]
    /\ last' = TreeCall("insert", value, value, value)
    /\ UNCHANGED <<players, queues, matches, nextMatchId, histories, gameBots,
                 nextPlayerId, serving>>

AvlRemove(value) ==
    /\ trees' = [trees EXCEPT !["pingpong"] = TreeRemove(@, value)]
    /\ last' = TreeCall("remove", value, value, value)
    /\ UNCHANGED <<players, queues, matches, nextMatchId, histories, gameBots,
                 nextPlayerId, serving>>

AvlFindClosest(target) ==
    /\ last' = TreeCall("findClosest", target, target,
                        findClosest(trees["pingpong"], target))
    /\ UNCHANGED <<players, queues, trees, matches, nextMatchId, histories, gameBots,
                 nextPlayerId, serving>>

AvlFindClosestExcluding(target, excluded) ==
    /\ last' = TreeCall("findClosestExcluding", target, excluded,
                        findClosestExcluding(trees["pingpong"], target, excluded))
    /\ UNCHANGED <<players, queues, trees, matches, nextMatchId, histories, gameBots,
                 nextPlayerId, serving>>

NextTree ==
    \/ \E v \in TreeValues : AvlInsert(v)
    \/ \E v \in TreeValues : AvlRemove(v)
    \/ \E t \in TreeTargets : AvlFindClosest(t)
    \/ \E t \in TreeTargets, x \in TreeValues : AvlFindClosestExcluding(t, x)

SpecTree == InitTree /\ [][NextTree]_vars

\* --- SpecBots: pingpong has three bots of different ratings; two humans
\* queue for it and win their matches, and findClosestBotOpponent is also
\* called on its own.

BotPool == [g \in Games |->
              IF g = "pingpong" THEN <<BOT_ID_START, BOT_ID_START + 1, BOT_ID_START + 2>>
              ELSE <<>>]

PoolElo == [id \in BotIds |->
              IF id = BOT_ID_START THEN 1010
              ELSE IF id = BOT_ID_START + 1 THEN 980 ELSE 1050]

BotTargets == {1000, 1040}

\* The call of findClosestBotOpponent just made and the bot id it returned.
BotCall(humanPlayerId, targetElo, gameName, botId) ==
    [op |-> "findClosestBotOpponent", player |-> humanPlayerId, target |-> targetElo,
     game |-> gameName, ret |-> botId]

InitBots == InitPool(BotPool, {H1, H2}, StartElo, PoolElo)

FindClosestBotOpponent(humanPlayerId, targetElo, gameName) ==
    /\ last' = BotCall(humanPlayerId, targetElo, gameName,
                       findClosestBotOpponent(State, humanPlayerId, targetElo, gameName))
    /\ UNCHANGED <<players, queues, trees, matches, nextMatchId, histories, gameBots,
                 nextPlayerId, serving>>

NextBots ==
    \/ NextWith({H1, H2} \X {"pingpong"}, {<<H1, "pingpong">>}, {"pingpong"},
                (1..MaxMatchesBots) \X {H1, H2}, MaxMatchesBots)
    \/ \E h \in {H1, H2}, t \in BotTargets : FindClosestBotOpponent(h, t, "pingpong")

SpecBots == InitBots /\ [][NextBots]_vars

\* --- SpecElo: updateRankings called on two registered humans whose ratings
\* are drawn at the start; nobody queues.

EloValues == {100, 800, 1000, 1016, 1600, 2400}

NoBots == [g \in Games |-> <<>>]

\* The call of updateRankings just made, with the ratings it found.
EloCall(winnerId, loserId, gameName, winnerOldElo, loserOldElo) ==
    [op |-> "updateRankings", winner |-> winnerId, loser |-> loserId,
     game |-> gameName, winnerOldElo |-> winnerOldElo, loserOldElo |-> loserOldElo]

InitElo ==
    \E e1 \in EloValues, e2 \in EloValues :
        InitPool(NoBots, {H1, H2}, [id \in HumanIds |-> IF id = H1 THEN e1 ELSE e2],
                 BotElo)

UpdateRankings(winnerId, loserId, gameName) ==
    /\ players[H1].wins + players[H2].wins < MaxUpdates
    /\ Apply(updateRankings(State, winnerId, loserId, gameName))
    /\ last' = EloCall(winnerId, loserId, gameName,
                       players[winnerId].elo, players[loserId].elo)

NextElo == \E w \in {H1, H2}, l \in {H1, H2} : UpdateRankings(w, l, "pingpong")

SpecElo == InitElo /\ [][NextElo]_vars

\* --- SpecReg: the POST /api/players handler called with a few display names,
\* one of them 50 characters long, on a server that has its bots and no human.

\* HashFunc<int> on the 101 buckets of playerStorage: getAllKeys lists the
\* keys bucket by bucket.
HashIndex(key) == (IF key >= 0 THEN key ELSE -key) % 101

\* std::stoi on the rating strings the requests carry.
stoi(eloStr) == IF eloStr = "1200" THEN 1200 ELSE 0

\* The handler of POST /api/players: ret is the id answered, -1 for status 400.
registerOrLogin(st, username, eloStr) ==
    IF username = "" THEN Result(st, -1)
    ELSE With({id \in DOMAIN st.players : st.players[id].username = username},
              LAMBDA existing :
         IF existing # {}
         THEN Result(st, CHOOSE id \in existing :
                             \A other \in existing : HashIndex(id) <= HashIndex(other))
         ELSE With(st.nextPlayerId, LAMBDA playerId :
                Result([st EXCEPT
                          !.nextPlayerId = @ + 1,
                          !.players = [id \in (DOMAIN @) \cup {playerId} |->
                                         IF id = playerId
                                         THEN NewPlayer(username,
                                                        IF eloStr = "" THEN 1000
                                                        ELSE stoi(eloStr), FALSE)
                                         ELSE @[id]]],
                       playerId)))

LongName == "abcdefghijabcdefghijabcdefghijabcdefghijabcdefghij"

RegNames == {"", "ann", "bob", LongName}

RegElos == {"", "1200"}

\* The registration just answered and the <<name, id>> pairs answered so far.
RegCall(username, playerId, answered) ==
    [op |-> "registerOrLogin", username |-> username, ret |-> playerId,
     answered |-> answered]

InitReg == InitWith({}, StartElo, BotElo)

RegisterOrLogin(username, eloStr) ==
    LET r == registerOrLogin(State, username, eloStr)
        before == IF last.op = "registerOrLogin" THEN last.answered ELSE {}
    IN  /\ r.st.nextPlayerId <= H1 + MaxProfiles
        /\ Apply(r.st)
        /\ last' = RegCall(username, r.ret,
                           IF r.ret = -1 THEN before
                           ELSE before \cup {<<username, r.ret>>})

NextReg == \E n \in RegNames, e \in RegElos : RegisterOrLogin(n, e)

SpecReg == InitReg /\ [][NextReg]_vars

\* --- SpecJoin: three registered humans use the server's join, leave and
\* result endpoints for pingpong.

\* The first uncompleted match of activeMatches (in bucket order) that holds
\* the player, or -1.
getPlayerActiveMatch(st, playerId) ==
    IF ActiveMatchesOf(st, playerId) = {} THEN -1
    ELSE CHOOSE id \in ActiveMatchesOf(st, playerId) :
             \A other \in ActiveMatchesOf(st, playerId) : HashIndex(id) <= HashIndex(other)

\* What the join handler answers: "matched" with a match id, "queued", or
\* "failed" (status 400).
Answer(answer, matchId) == [answer |-> answer, matchId |-> matchId]

\* The first half of the POST /api/matchmaking/join handler: a player found
\* queued is taken out of the named game's queue and its flag cleared; a player
\* found in a match has that match closed as its own win and its flag cleared.
resetStaleState(st, playerId, gameName) ==
    IF playerId \notin DOMAIN st.players THEN st
    ELSE With(IF st.players[playerId].isInQueue
              THEN [leaveQueue(st, playerId, gameName).st
                      EXCEPT !.players[playerId].isInQueue = FALSE]
              ELSE st, LAMBDA st1 :
         IF st1.players[playerId].isInMatch
         THEN With(getPlayerActiveMatch(st1, playerId), LAMBDA activeMatchId :
                [(IF activeMatchId # -1
                  THEN submitMatchResult(st1, activeMatchId, playerId).st
                  ELSE st1)
                   EXCEPT !.players[playerId].isInMatch = FALSE])
         ELSE st1)

\* The handler of POST /api/matchmaking/join.
matchmakingJoin(st, playerId, gameName) ==
    With(joinQueue(resetStaleState(st, playerId, gameName), playerId, gameName),
         LAMBDA joined :
      IF joined.ret
      THEN With(tryCreateMatch(joined.st, gameName), LAMBDA tried :
             IF tried.ret # -1 THEN Result(tried.st, Answer("matched", tried.ret))
             ELSE Result(tried.st, Answer("queued", -1)))
      ELSE Result(joined.st, Answer("failed", -1)))

\* The join request just answered.
JoinCall(playerId, gameName, answer) ==
    [op |-> "matchmakingJoin", player |-> playerId, game |-> gameName,
     answer |-> answer.answer, matchId |-> answer.matchId]

InitJoin == InitWith(HumanIds, StartElo, BotElo)

MatchmakingJoin(playerId, gameName) ==
    LET r == matchmakingJoin(State, playerId, gameName)
    IN  /\ r.st.nextMatchId <= MaxMatchesJoin + 1
        /\ Apply(r.st)
        /\ last' = JoinCall(playerId, gameName, r.ret)

NextJoin ==
    \/ \E h \in HumanIds : MatchmakingJoin(h, "pingpong")
    \/ \E h \in HumanIds : LeaveQueue(h, "pingpong")
    \/ \E m \in 1..MaxMatchesJoin, w \in PlayerIds : SubmitMatchResult(m, w)

SpecJoin == InitJoin /\ [][NextJoin]_vars

\* --- SpecStatus: the endpoints of SpecJoin and the status endpoint.

\* What the status handler answers; found is FALSE for status 404.
Status(found, isInQueue, isInMatch, activeMatchId) ==
    [found |-> found, isInQueue |-> isInQueue, isInMatch |-> isInMatch,
     activeMatchId |-> activeMatchId]

\* The handler of GET /api/matchmaking/status/<id>.
matchmakingStatus(st, playerId) ==
    IF playerId \notin DOMAIN st.players THEN Result(st, Status(FALSE, FALSE, FALSE, -1))
    ELSE With(IF st.players[playerId].isInQueue
              THEN tryCreateMatch(
                       tryCreateMatch(tryCreateMatch(st, "pingpong").st, "snake").st,
                       "tank").st
              ELSE st, LAMBDA st1 :
           Result(st1, Status(TRUE, st1.players[playerId].isInQueue,
                              st1.players[playerId].isInMatch,
                              getPlayerActiveMatch(st1, playerId))))

\* The status request just answered.
StatusCall(playerId, status) ==
    [op |-> "matchmakingStatus", player |-> playerId, found |-> status.found,
     isInQueue |-> status.isInQueue, isInMatch |-> status.isInMatch,
     activeMatchId |-> status.activeMatchId]

MatchmakingStatus(playerId) ==
    LET r == matchmakingStatus(State, playerId)
    IN  /\ r.st.nextMatchId <= MaxMatchesJoin + 1
        /\ Apply(r.st)
        /\ last' = StatusCall(playerId, r.ret)

NextStatus ==
    \/ NextJoin
    \/ \E h \in HumanIds : MatchmakingStatus(h)

SpecStatus == InitJoin /\ [][NextStatus]_vars

\* --- SpecBoard: the tree of SpecTree grown and shrunk, and getLeaderboard
\* called on it with several limits.

Limits == {0, 1, 3, 100}

\* The getLeaderboard call just made and the entries it returned.
BoardCall(gameName, maxCount, entries) ==
    [op |-> "getLeaderboard", game |-> gameName, limit |-> maxCount,
     entries |-> entries]

GetLeaderboard(gameName, maxCount) ==
    /\ last' = BoardCall(gameName, maxCount, getLeaderboard(State, gameName, maxCount))
    /\ UNCHANGED <<players, queues, trees, matches, nextMatchId, histories, gameBots,
                   nextPlayerId, serving>>

NextBoard ==
    \/ \E v \in TreeValues : AvlInsert(v)
    \/ \E v \in TreeValues : AvlRemove(v)
    \/ \E n \in Limits : GetLeaderboard("pingpong", n)

SpecBoard == InitTree /\ [][NextBoard]_vars

\* --- SpecServe: the listen loop of the server taking join and leave requests
\* of three humans for pingpong, one connection at a time; the game has no
\* bot.  The leave request is handled in the two steps leaveQueue makes.

\* A loop that would take the next connection whatever it is doing.
acceptingAlways(loop) == TRUE

\* accept() is called at the top of the while loop only, after handle_client
\* has returned.
accepting(loop) == loop = Idle

ServeInit == InitPool(NoBots, HumanIds, StartElo, BotElo)

\* accept(), recv() and the route lookup: the request is in the handler's hands.
Accept(kind, playerId, gameName) ==
    /\ accepting(serving)
    /\ serving' = Request(kind, playerId, gameName, 0)
    /\ UNCHANGED <<players, queues, trees, matches, nextMatchId, histories, gameBots,
                   nextPlayerId, last>>

\* The join handler, the response and closesocket().
ServeJoin ==
    /\ serving.kind = "join"
    /\ LET r == matchmakingJoin(State, serving.player, serving.game)
       IN  /\ r.st.nextMatchId <= MaxMatchesJoin + 1
           /\ Apply([r.st EXCEPT !.serving = Idle])
           /\ last' = JoinCall(serving.player, serving.game, r.ret)

\* leaveQueue up to playerStorage->update: its checks, queue->remove and the
\* cleared flag; a failed check is answered at once.
ServeLeaveDequeue ==
    /\ serving.kind = "leave" /\ serving.step = 0
    /\ IF /\ serving.player \in DOMAIN players
          /\ players[serving.player].isInQueue
          /\ serving.game \in Games
          /\ QueueContains(queues[serving.game], serving.player)
       THEN /\ Apply([State EXCEPT
                        !.queues[serving.game] = QueueRemove(@, serving.player),
                        !.players[serving.player].isInQueue = FALSE,
                        !.serving = [@ EXCEPT !.step = 1]])
            /\ UNCHANGED last
       ELSE /\ Apply([State EXCEPT !.serving = Idle])
            /\ last' = Rejected("leaveQueue")

\* The rest of leaveQueue: removePlayerFromRanking; then the response.
ServeLeaveUnrank ==
    /\ serving.kind = "leave" /\ serving.step = 1
    /\ Apply([removePlayerFromRanking(State, serving.player,
                                      players[serving.player].elo, serving.game)
                EXCEPT !.serving = Idle])
    /\ last' = Call("leaveQueue", serving.player, serving.game, 0, 0, TRUE, 0)

NextServe ==
    \/ \E k \in {"join", "leave"}, h \in HumanIds : Accept(k, h, "pingpong")
    \/ ServeJoin
    \/ ServeLeaveDequeue
    \/ ServeLeaveUnrank

SpecServe == ServeInit /\ [][NextServe]_vars

\* --- SpecLoop: processMatchmaking run one loop evaluation at a time, between
\* joins and results of three humans for pingpong; a call once entered keeps
\* running (the thread is not stopped).

\* The processMatchmaking call in progress: the matches counted so far and the
\* value of nextMatchId when it was entered.
Loop(gameName, matchesCreated, firstMatchId) ==
    [kind |-> "processMatchmaking", game |-> gameName,
     matchesCreated |-> matchesCreated, firstMatchId |-> firstMatchId]

\* The processMatchmaking call just returned, with the value returned and
\* the value of nextMatchId when it was entered.
LoopCall(gameName, ret, firstMatchId) ==
    [op |-> "processMatchmaking", game |-> gameName, ret |-> ret,
     firstMatchId |-> firstMatchId]

LoopEnter(gameName) ==
    /\ serving = Idle
    /\ serving' = Loop(gameName, 0, nextMatchId)
    /\ UNCHANGED <<players, queues, trees, matches, nextMatchId, histories, gameBots,
                   nextPlayerId, last>>

LoopStep ==
    /\ serving.kind = "processMatchmaking"
    /\ \E it \in {processStep(State, serving.game, serving.matchesCreated)} :
           IF it.done
           THEN /\ Apply([it.st EXCEPT !.serving = Idle])
                /\ last' = LoopCall(serving.game, it.matchesCreated,
                                    serving.firstMatchId)
           ELSE /\ Apply([it.st EXCEPT !.serving =
                            Loop(serving.game, it.matchesCreated,
                                 serving.firstMatchId)])
                /\ UNCHANGED last

NextLoop ==
    \/ \E h \in HumanIds :
          serving = Idle /\ nextMatchId <= MaxMatchesLoop /\ JoinQueue(h, "pingpong")
    \/ \E m \in 1..(MaxMatchesLoop + 2), w \in HumanIds :
          serving = Idle /\ SubmitMatchResult(m, w)
    \/ LoopEnter("pingpong")
    \/ LoopStep

SpecLoop == InitJoin /\ [][NextLoop]_vars /\ WF_vars(LoopStep)

\* --- SpecOrder: joins, leaves, match attempts and results of three humans for
\* pingpong, with the order in which the queued players joined (the order of
\* the joinTime of their queue entries) kept beside the engine.

\* The call just made: for a tryCreateMatch the player it dequeued (0 if the
\* queue was empty), and the players now queued, earliest joiner first.
OrderCall(op, picked, ret, order) ==
    [op |-> op, picked |-> picked, ret |-> ret, order |-> order]

\* The players of order that the queue q still holds.
StillQueued(order, q) ==
    SelectSeq(order, LAMBDA p : \E i \in DOMAIN q : q[i] = p)

InitOrder ==
    /\ InitEngine(bots, HumanIds, StartElo, BotElo)
    /\ last = OrderCall("init", 0, 0, <<>>)

OrderJoin(playerId) ==
    \E r \in {joinQueue(State, playerId, "pingpong")} :
        /\ Apply(r.st)
        /\ last' = OrderCall("joinQueue", 0, 0,
                             IF r.ret THEN Append(last.order, playerId)
                             ELSE last.order)

OrderLeave(playerId) ==
    \E r \in {leaveQueue(State, playerId, "pingpong")} :
        /\ Apply(r.st)
        /\ last' = OrderCall("leaveQueue", 0, 0,
                             StillQueued(last.order, r.st.queues["pingpong"]))

OrderTry ==
    \E r \in {tryCreateMatch(State, "pingpong")} :
        /\ r.st.nextMatchId <= MaxMatchesOrder + 1
        /\ Apply(r.st)
        /\ last' = OrderCall("tryCreateMatch",
                             IF Len(queues["pingpong"]) = 0 THEN 0
                             ELSE Head(queues["pingpong"]),
                             r.ret,
                             StillQueued(last.order, r.st.queues["pingpong"]))

OrderSubmit(matchId, winnerId) ==
    \E r \in {submitMatchResult(State, matchId, winnerId)} :
        /\ Apply(r.st)
        /\ last' = OrderCall("submitMatchResult", 0, 0, last.order)

NextOrder ==
    \/ \E h \in HumanIds : OrderJoin(h)
    \/ \E h \in HumanIds : OrderLeave(h)
    \/ OrderTry
    \/ \E m \in 1..MaxMatchesOrder, w \in PlayerIds : OrderSubmit(m, w)

SpecOrder == InitOrder /\ [][NextOrder]_vars

\* --- SpecFrame: three humans queue for pingpong and H1 also for snake; H1
\* wins the matches H1 plays, the other matches stay open.

FrameJoins == (HumanIds \X {"pingpong"}) \cup {<<H1, "snake">>}

NextFrame ==
    \/ \E c \in FrameJoins : JoinQueue(c[1], c[2])
    \/ \E g \in {"pingpong", "snake"} : TryCreateMatch(g, MaxMatchesFrame)
    \/ \E m \in 1..(MaxMatchesFrame - 1) : SubmitMatchResult(m, H1)

SpecFrame == InitCross /\ [][NextFrame]_vars

\* --- SpecQueue: one Queue (pingpong's) as the linked list of the code, taking
\* enqueue, dequeue and remove of three player ids in any order, beside the
\* sequence queues["pingpong"] that the engine's model keeps for it.

\* The Queue call just made: its argument, what it returned, the value it
\* handed out, and the linked list after it.
ListCall(op, value, ret, outValue, list) ==
    [op |-> op, value |-> value, ret |-> ret, outValue |-> outValue, list |-> list]

InitQueue ==
    /\ InitEngine(NoBots, {}, StartElo, BotElo)
    /\ last = ListCall("init", 0, TRUE, 0, EmptyList)

EngineUnchanged ==
    UNCHANGED <<players, trees, matches, nextMatchId, histories, gameBots,
                nextPlayerId, serving>>

ListEnqueue(value) ==
    /\ last.list.queueSize < MaxQueueLen
    /\ \E addr \in (1..MaxQueueLen) \ DOMAIN last.list.nodes :
          last' = ListCall("enqueue", value, TRUE, 0,
                           listEnqueue(last.list, addr, value))
    /\ queues' = [queues EXCEPT !["pingpong"] = enqueue(@, value)]
    /\ EngineUnchanged

ListDequeue ==
    /\ \E r \in {listDequeue(last.list)} :
          last' = ListCall("dequeue", 0, r.ret, r.outValue, r.q)
    /\ queues' = [queues EXCEPT !["pingpong"] = IF Len(@) = 0 THEN @ ELSE Tail(@)]
    /\ EngineUnchanged

ListRemove(value) ==
    /\ \E r \in {listRemove(last.list, value)} :
          last' = ListCall("remove", value, r.ret, 0, r.q)
    /\ queues' = [queues EXCEPT !["pingpong"] = QueueRemove(@, value)]
    /\ EngineUnchanged

NextQueue ==
    \/ \E v \in HumanIds : ListEnqueue(v)
    \/ ListDequeue
    \/ \E v \in HumanIds : ListRemove(v)

SpecQueue == InitQueue /\ [][NextQueue]_vars

\* --------------------------------------------------------- the properties

\* The participants of a match.
Participants(match) == {match.player1Id, match.player2Id}

\* The games whose queue holds the player.
QueuesHolding(playerId) == {g \in Games : QueueContains(queues[g], playerId)}

\* C1: for every player, isInQueue is true if and only if the player's id is
\* present in exactly one game's queue.
InQueueIffInOneQueue ==
    \A p \in DOMAIN players :
        players[p].isInQueue <=> Cardinality(QueuesHolding(p)) = 1

\* C2: no player is a participant of more than one uncompleted match.
AtMostOneActiveMatch ==
    \A p \in DOMAIN players : Cardinality(ActiveMatchesOf(State, p)) <= 1

\* C3: no match has player1Id equal to player2Id (the opponent search never
\* returns the searching player's own id).
NoSelfMatch ==
    \A m \in DOMAIN matches : matches[m].player1Id # matches[m].player2Id

\* C4: when A (rating 1000) and B (rating 1020) have joined one game's queue
\* in that order, nobody else is queued and no match was made yet, the next
\* tryCreateMatch for that game creates a match between A and B.
FirstTwoArePaired ==
    [][\A g \in Games :
         (/\ queues[g] = <<H1, H2>>
          /\ \A h \in Games \ {g} : queues[h] = <<>>
          /\ matches = <<>>
          /\ players[H1].elo = 1000 /\ players[H2].elo = 1020
          /\ last'.op = "tryCreateMatch" /\ last'.game = g)
         => /\ last'.ret \in DOMAIN matches'
            /\ Participants(matches'[last'.ret]) = {H1, H2}]_vars

\* The humans queued for the game behind the front of its queue.
OtherQueuedHumans(g) ==
    {queues[g][i] : i \in 2..Len(queues[g])}
        \cap {p \in DOMAIN players : ~players[p].isBot /\ p # Head(queues[g])}

\* C5: when tryCreateMatch runs on a queue of at least two and another human
\* is queued for that game, the front player is matched with a queued human,
\* one of those whose rating is closest to the front player's.
QueuedHumanPreferred ==
    [][\A g \in Games :
         (/\ Len(queues[g]) >= 2
          /\ Head(queues[g]) \in DOMAIN players
          /\ ~players[Head(queues[g])].isBot
          /\ OtherQueuedHumans(g) # {}
          /\ last'.op = "tryCreateMatch" /\ last'.game = g)
         => /\ last'.ret \in DOMAIN matches'
            /\ matches'[last'.ret].player1Id = Head(queues[g])
            /\ matches'[last'.ret].player2Id \in OtherQueuedHumans(g)
            /\ \A q \in OtherQueuedHumans(g) :
                   AbsDiff(players[matches'[last'.ret].player2Id],
                           players[Head(queues[g])])
                     <= AbsDiff(players[q], players[Head(queues[g])])]_vars

\* C6: each game's queue holds at most one entry per player id.
OneEntryPerPlayer ==
    \A g \in Games : \A i, j \in 1..Len(queues[g]) :
        queues[g][i] = queues[g][j] => i = j

CompletedIsFinal ==
    /\ [](\A m \in DOMAIN matches :
            matches[m].isCompleted
            => \A w \in PlayerIds : ~submitMatchResult(State, m, w).ret)
    /\ [][\A m \in DOMAIN matches :
            matches[m].isCompleted
            => /\ m \in DOMAIN matches'
               /\ matches'[m].isCompleted
               /\ matches'[m].winnerId = matches[m].winnerId]_vars

\* A submitMatchResult was just rejected for a completed match.
ResultRejectedCompleted ==
    /\ last.op = "submitMatchResult" /\ ~last.ok
    /\ last.matchId \in DOMAIN matches
    /\ matches[last.matchId].isCompleted

\* C9: submitMatchResult returns false and leaves the whole engine state as
\* it was when the match id is unknown, the match is completed, or winnerId
\* is neither of the match's participants.
SubmitMatchResultRejects ==
    \A m \in 1..(MaxMatches + 1), w \in PlayerIds :
        (\/ m \notin DOMAIN matches
         \/ matches[m].isCompleted
         \/ w \notin Participants(matches[m]))
        => submitMatchResult(State, m, w) = Result(State, FALSE)

\* A submitMatchResult was just rejected for a match still being played: the
\* winner it named is not a participant.
ResultRejectedNonParticipant ==
    /\ last.op = "submitMatchResult" /\ ~last.ok
    /\ last.matchId \in DOMAIN matches
    /\ ~matches[last.matchId].isCompleted

\* C10: after a successful submitMatchResult both participants have isInMatch
\* and isInQueue false and are in no game's queue.
AvailableAfterResult ==
    (last.op = "submitMatchResult" /\ last.ok)
    => \A p \in Participants(matches[last.matchId]) :
           /\ ~players[p].isInMatch
           /\ ~players[p].isInQueue
           /\ QueuesHolding(p) = {}

\* The completed matches the player took part in.
CompletedMatchesOf(playerId) ==
    {m \in DOMAIN matches :
        matches[m].isCompleted /\ playerId \in Participants(matches[m])}

\* C11: a player's history holds exactly one record per completed match the
\* player took part in, and nothing else.
HistoryOnePerMatch ==
    \A p \in PlayerIds :
        /\ Len(histories[p]) = Cardinality(CompletedMatchesOf(p))
        /\ \A m \in CompletedMatchesOf(p) :
               \E i \in 1..Len(histories[p]) : histories[p][i] = matches[m]

\* C12: every entry of every game's ranking tree carries the current rating
\* of the player it names.
NoStaleKey ==
    \A g \in Games : \A e \in TreeEntries(trees[g]) :
        e.playerId \in DOMAIN players /\ players[e.playerId].elo = e.elo

\* The entries of the searched tree.
Stored == TreeEntries(trees["pingpong"])

\* The entries a search may return: all of them for findClosest, all but the
\* excluded one for findClosestExcluding.
Candidates == IF last.op = "findClosest" THEN Stored ELSE Stored \ {last.excluded}

\* The candidates at minimal distance from the target of the last search.
Nearest ==
    {c \in Candidates :
        \A d \in Candidates : AbsDiff(c, last.value) <= AbsDiff(d, last.value)}

\* C13: findClosestExcluding returns one of the entries, other than the
\* excluded one, at minimal distance from the target, and returns nothing
\* exactly when there is no entry other than the excluded one.
ClosestExcludingIsNearest ==
    last.op = "findClosestExcluding"
    => IF Candidates = {} THEN last.found.playerId = -1
       ELSE last.found \in Nearest

\* A search in a tree of at least five entries (so rotations have happened)
\* that holds the excluded entry, and the excluded entry is the nearest one.
ExcludedWasNearest ==
    /\ last.op = "findClosestExcluding"
    /\ Cardinality(Stored) >= 5
    /\ last.excluded \in Stored
    /\ \A c \in Candidates : AbsDiff(last.excluded, last.value) < AbsDiff(c, last.value)

\* C14: when several candidates are at the same minimal distance,
\* findClosestExcluding returns one of the lowest rating among them.
ClosestExcludingTieLower ==
    (last.op = "findClosestExcluding" /\ Candidates # {})
    => \A c \in Nearest : last.found.elo <= c.elo

\* C15: findClosest returns an entry at minimal distance from the target, of
\* the lowest rating among those, and returns nothing exactly when the tree
\* is empty.
ClosestIsNearestLower ==
    last.op = "findClosest"
    => IF Stored = {} THEN last.found.playerId = -1
       ELSE /\ last.found \in Nearest
            /\ \A c \in Nearest : last.found.elo <= c.elo

\* A findClosest whose target lies midway between two stored ratings, with
\* the target's own rating not stored.
ClosestTie ==
    /\ last.op = "findClosest"
    /\ \E a, b \in Nearest : a.elo < last.value.elo /\ last.value.elo < b.elo

\* The bots registered for a game, those of them not in a match, and those of
\* them that are not among the human's recent opponents either.
PoolOf(gameName) == {gameBots[gameName][i] : i \in DOMAIN gameBots[gameName]}

AvailableBots(gameName) ==
    {b \in PoolOf(gameName) : b \in DOMAIN players /\ ~players[b].isInMatch}

FreshBots(humanPlayerId, gameName) ==
    {b \in AvailableBots(gameName) : ~wasRecentOpponent(players[humanPlayerId], b)}

EloDistance(botId, targetElo) ==
    IF players[botId].elo < targetElo THEN targetElo - players[botId].elo
    ELSE players[botId].elo - targetElo

\* C16: whenever some bot registered for the game is not in a match and not
\* among the human's recent opponents, findClosestBotOpponent returns a bot of
\* that set, and no bot of that set has a rating closer to the target.
ClosestFreshBot ==
    (last.op = "findClosestBotOpponent" /\ FreshBots(last.player, last.game) # {}) =>
        /\ last.ret \in FreshBots(last.player, last.game)
        /\ \A b \in FreshBots(last.player, last.game) :
              EloDistance(last.ret, last.target) <= EloDistance(b, last.target)

\* findClosestBotOpponent chose among two or more fresh bots and passed over
\* an available bot of closer rating that the human played recently.
RecentCloserBotSkipped ==
    /\ last.op = "findClosestBotOpponent"
    /\ Cardinality(FreshBots(last.player, last.game)) >= 2
    /\ \E b \in AvailableBots(last.game) \ FreshBots(last.player, last.game) :
          EloDistance(b, last.target) < EloDistance(last.ret, last.target)

\* C17: when some bot of the game is not in a match and every such bot is
\* among the human's recent opponents, findClosestBotOpponent returns the
\* available bot of closest rating, and tryCreateMatch for that human alone
\* in the queue creates the match with it.
FallbackBotChosen ==
    [][/\ (/\ last'.op = "findClosestBotOpponent"
           /\ AvailableBots(last'.game) # {}
           /\ FreshBots(last'.player, last'.game) = {})
          => /\ last'.ret \in AvailableBots(last'.game)
             /\ \A b \in AvailableBots(last'.game) :
                   EloDistance(last'.ret, last'.target) <= EloDistance(b, last'.target)
       /\ \A g \in Games :
            (/\ last'.op = "tryCreateMatch" /\ last'.game = g
             /\ Len(queues[g]) = 1
             /\ Head(queues[g]) \in DOMAIN players
             /\ ~players[Head(queues[g])].isBot
             /\ AvailableBots(g) # {}
             /\ FreshBots(Head(queues[g]), g) = {})
            => /\ last'.ret \in (DOMAIN matches') \ (DOMAIN matches)
               /\ matches'[last'.ret].player1Id = Head(queues[g])
               /\ matches'[last'.ret].player2Id \in AvailableBots(g)
               /\ \A b \in AvailableBots(g) :
                     EloDistance(matches'[last'.ret].player2Id,
                                 players[Head(queues[g])].elo)
                       <= EloDistance(b, players[Head(queues[g])].elo)]_vars

\* The opponents the human had played recently before its newest one.
EarlierOpponents(humanPlayerId) ==
    {players[humanPlayerId].recentOpponents[i] :
         i \in 2..players[humanPlayerId].recentOpponentCount}

\* tryCreateMatch has just matched a human with a bot it had played recently
\* while every other bot out of a match was a recent opponent too.
FallbackMatchCreated ==
    /\ last.op = "tryCreateMatch"
    /\ last.ret \in DOMAIN matches
    /\ LET m == matches[last.ret]
       IN  /\ players[m.player2Id].isBot
           /\ ~players[m.player1Id].isBot
           /\ m.player2Id \in EarlierOpponents(m.player1Id)
           /\ AvailableBots(m.gameName) # {}
           /\ AvailableBots(m.gameName) \subseteq EarlierOpponents(m.player1Id)

\* C18: updateRankings applied to two players of equal rating raises the
\* winner's rating, lowers the loser's, and the gain and the loss differ in
\* magnitude by at most one.
EqualRatingsSymmetric ==
    (/\ last.op = "updateRankings"
     /\ last.winner # last.loser
     /\ last.winnerOldElo = last.loserOldElo)
    => /\ players[last.winner].elo > last.winnerOldElo
       /\ players[last.loser].elo < last.loserOldElo
       /\ (players[last.winner].elo - last.winnerOldElo)
            - (last.loserOldElo - players[last.loser].elo) \in {-1, 0, 1}

\* updateRankings has just been applied to two players of equal rating.
EqualRatingsUpdated ==
    /\ last.op = "updateRankings"
    /\ last.winner # last.loser
    /\ last.winnerOldElo = last.loserOldElo
    /\ players[last.winner].wins >= 1

\* C19: a display name is answered with the same player id every time it is
\* registered, and at most one human profile carries it, whatever was
\* registered in between.
RegisterIdempotent ==
    last.op = "registerOrLogin" =>
        /\ \A p \in last.answered, q \in last.answered : p[1] = q[1] => p[2] = q[2]
        /\ \A p \in last.answered :
              Cardinality({id \in DOMAIN players :
                             /\ ~players[id].isBot
                             /\ players[id].username = Username(p[1])}) <= 1

\* C20: when the join handler answers matched with a match id, the joining
\* player is one of the two participants of that match and is in no queue;
\* when it answers queued, the joining player is in the queue it asked for.
JoinAnswerTruthful ==
    last.op = "matchmakingJoin" =>
        /\ last.answer = "matched" =>
              /\ last.matchId \in DOMAIN matches
              /\ last.player \in Participants(matches[last.matchId])
              /\ QueuesHolding(last.player) = {}
        /\ last.answer = "queued" =>
              QueueContains(queues[last.game], last.player)

\* C21: a join request for a player who is queued or in an uncompleted match
\* is answered as a failure and leaves the whole engine state as it was
\* (queues, matches with their completion and winner, ratings).
JoinRequestRejectsBusy ==
    \A p \in HumanIds :
        (/\ p \in DOMAIN players
         /\ (players[p].isInQueue \/ ActiveMatchesOf(State, p) # {}))
        => matchmakingJoin(State, p, "pingpong") = Result(State, Answer("failed", -1))

\* C22: a status request leaves every queue, ranking tree, match record and
\* player record as it was and creates no match.
StatusReadOnly ==
    [][last'.op = "matchmakingStatus"
       => UNCHANGED <<players, queues, trees, matches, nextMatchId, histories>>]_vars

\* The state a leaveQueue(playerId, gameName) call leaves when it succeeds as
\* the contract describes: no entry of the player in that game's queue or
\* ranking tree, the isInQueue flag cleared.
LeftQueue(st, playerId, gameName) ==
    /\ ~QueueContains(st.queues[gameName], playerId)
    /\ \A e \in TreeEntries(st.trees[gameName]) : e.playerId # playerId
    /\ ~st.players[playerId].isInQueue

\* C23: leaveQueue succeeds only for a player with an entry in that game's
\* queue; on success the player is absent from that queue and from that
\* game's ranking tree and isInQueue is false; on failure nothing changes.
LeaveQueueContract ==
    \A p \in PlayerIds, g \in Games \cup {UnknownGame} :
        IF leaveQueue(State, p, g).ret
        THEN /\ g \in Games /\ QueueContains(queues[g], p)
             /\ LeftQueue(leaveQueue(State, p, g).st, p, g)
        ELSE leaveQueue(State, p, g).st = State

\* C24: getLeaderboard(game, limit) returns min(limit, size of the tree)
\* entries in non-increasing rating order, and the entry at position i is the
\* one of rank i: exactly i - 1 entries of the tree stand above it.
LeaderboardRanked ==
    last.op = "getLeaderboard" =>
        /\ Len(last.entries) = IF last.limit < TreeSize(trees[last.game])
                               THEN last.limit ELSE TreeSize(trees[last.game])
        /\ \A i \in 1..Len(last.entries), j \in 1..Len(last.entries) :
              i < j => last.entries[i].elo >= last.entries[j].elo
        /\ \A i \in 1..Len(last.entries) :
              /\ last.entries[i] \in TreeEntries(trees[last.game])
              /\ Cardinality({e \in TreeEntries(trees[last.game]) :
                                 Less(last.entries[i], e)}) = i - 1

\* getLeaderboard has just cut a list of entries of two or more ratings off
\* at its limit.
LeaderboardTruncated ==
    /\ last.op = "getLeaderboard"
    /\ Len(last.entries) = last.limit
    /\ last.limit < TreeSize(trees[last.game])
    /\ \E i \in 1..Len(last.entries) : last.entries[i].elo # last.entries[1].elo

\* No player that never finished a match has an entry in a game's ranking
\* tree without being in that game's queue: no leave is half applied.
NoHalfLeft ==
    \A g \in Games : \A e \in TreeEntries(trees[g]) :
        (/\ e.playerId \in DOMAIN players
         /\ ~players[e.playerId].isBot
         /\ players[e.playerId].wins + players[e.playerId].losses = 0)
        => QueueContains(queues[g], e.playerId)

\* C25: requests are serialized: a request is taken up only when the one
\* before it has run to completion, and the state it then finds holds no half
\* applied operation (a player dequeued but still in the ranking tree).
RequestsSerialized ==
    [][(serving' # serving /\ serving'.kind # "accept" /\ serving'.step = 0)
       => (serving = Idle /\ NoHalfLeft)]_vars

\* The server is in the middle of a leave request: the player is dequeued and
\* still in the ranking tree.
LeaveHalfApplied ==
    /\ serving.kind = "leave" /\ serving.step = 1
    /\ ~NoHalfLeft

\* C26: a processMatchmaking call that was entered returns, and the value it
\* returns is the number of matches created during the call.
ProcessMatchmakingReturns ==
    /\ [][(serving.kind = "processMatchmaking" /\ serving' = Idle)
          => /\ last'.ret = nextMatchId' - serving.firstMatchId
             /\ last'.ret = Cardinality({id \in DOMAIN matches' :
                                            id >= serving.firstMatchId})]_vars
    /\ (serving.kind = "processMatchmaking") ~> (serving = Idle)

\* A processMatchmaking call has returned after creating a match and leaving
\* two or more players queued: its last attempt failed.
LoopBrokeAfterMatch ==
    /\ last.op = "processMatchmaking"
    /\ serving = Idle
    /\ last.ret >= 1
    /\ Len(queues[last.game]) >= 2

\* C27: no player is flagged both as queued and as in a match.
NeverQueuedAndInMatch ==
    \A p \in DOMAIN players : ~(players[p].isInQueue /\ players[p].isInMatch)

\* A player who queued has been matched while another player is queued.
MatchedBesideQueued ==
    \E p, q \in DOMAIN players \cap HumanIds :
        /\ players[p].isInMatch /\ ~players[p].isInQueue
        /\ players[q].isInQueue /\ ~players[q].isInMatch
        /\ last.op = "tryCreateMatch"

\* C28: match ids are 1, 2, 3, ... in creation order and never reused: the
\* matches stored are those with the ids below nextMatchId, each under its own
\* id; a new match takes the ids from nextMatchId on, and a stored match stays
\* stored under its id with the same players and game.
MatchIdsSequential ==
    /\ [](/\ DOMAIN matches = 1..(nextMatchId - 1)
          /\ \A id \in DOMAIN matches : matches[id].matchId = id)
    /\ [][/\ nextMatchId' >= nextMatchId
          /\ DOMAIN matches' \ DOMAIN matches = nextMatchId..(nextMatchId' - 1)
          /\ \A id \in DOMAIN matches :
                /\ id \in DOMAIN matches'
                /\ matches'[id].player1Id = matches[id].player1Id
                /\ matches'[id].player2Id = matches[id].player2Id
                /\ matches'[id].gameName = matches[id].gameName]_vars

\* Three matches are stored, the first of them completed.
CompletedMatchKept ==
    /\ nextMatchId = 4
    /\ matches[1].isCompleted
    /\ ~matches[3].isCompleted

\* C29: the player a tryCreateMatch dequeues is the one who joined earliest
\* among the players queued for the game when it is called.
PicksEarliestJoiner ==
    [][(last'.op = "tryCreateMatch" /\ last'.picked # 0)
       => last'.picked = Head(last.order)]_vars

\* The players the queue q holds.
QueuedPlayers(q) == {q[i] : i \in DOMAIN q}

\* C30: a tryCreateMatch that returns -1 leaves the set of players queued for
\* the game, every player's isInQueue and isInMatch, the contents of the
\* game's ranking tree and the matches as they were.
FailedAttemptFrame ==
    \A g \in Games :
        \A r \in {tryCreateMatch(State, g)} :
            r.ret = -1 =>
                /\ QueuedPlayers(r.st.queues[g]) = QueuedPlayers(queues[g])
                /\ \A p \in DOMAIN players :
                      /\ r.st.players[p].isInQueue = players[p].isInQueue
                      /\ r.st.players[p].isInMatch = players[p].isInMatch
                /\ inOrder(r.st.trees[g].root) = inOrder(trees[g].root)
                /\ r.st.matches = matches
                /\ r.st.nextMatchId = nextMatchId

\* The matches stored before id that the player took part in.
EarlierMatchesOf(playerId, id) ==
    {m \in DOMAIN matches : m < id /\ playerId \in Participants(matches[m])}

\* The other participant of a match.
OpponentIn(match, playerId) ==
    IF match.player1Id = playerId THEN match.player2Id ELSE match.player1Id

\* The opponents other than b that are eligible for human a in the game:
\* another human in the game's queue, or a bot of the game that is out of a
\* match and not among a's recent opponents.
OtherEligible(a, b, gameName) ==
    {c \in QueuedPlayers(queues[gameName]) \ {a, b} : ~players[c].isBot}
    \cup (FreshBots(a, gameName) \ {b})

\* C31: a match just created does not pair the human it was created for
\* (player1) with the opponent of that human's preceding match while another
\* eligible opponent was available.
NoImmediateRepeat ==
    [][\A id \in DOMAIN matches' \ DOMAIN matches :
         \A a \in {matches'[id].player1Id} :
           \A g \in {matches'[id].gameName} :
             (/\ ~players[a].isBot
              /\ EarlierMatchesOf(a, id) # {}
              /\ OtherEligible(a, matches'[id].player2Id, g) # {})
             => \A prev \in EarlierMatchesOf(a, id) :
                  (\A m \in EarlierMatchesOf(a, id) : m <= prev)
                  => OpponentIn(matches[prev], a) # matches'[id].player2Id]_vars

\* C32: no bot takes part in two uncompleted matches, and a bot that takes
\* part in one is flagged isInMatch, the flag both opponent searches test.
BotInOneMatch ==
    \A b \in BotIds \cap DOMAIN players :
        /\ Cardinality(ActiveMatchesOf(State, b)) <= 1
        /\ ActiveMatchesOf(State, b) # {} => players[b].isInMatch

\* A human was just matched with a bot while another bot of the game was in
\* an uncompleted match.
BotChosenBesideBusyBot ==
    /\ last.op = "tryCreateMatch" /\ last.ok
    /\ players[matches[last.ret].player2Id].isBot
    /\ \E b \in PoolOf(matches[last.ret].gameName) \ {matches[last.ret].player2Id} :
          ActiveMatchesOf(State, b) # {}

\* The number of nodes on the longest path from node down to a leaf.
RECURSIVE TrueHeight(_)
TrueHeight(node) ==
    IF IsNull(node) THEN 0
    ELSE With(TrueHeight(node.left), LAMBDA l :
         With(TrueHeight(node.right), LAMBDA r :
           1 + (IF l > r THEN l ELSE r)))

\* Every node stores its true height and its subtrees' heights differ by at
\* most 1.
RECURSIVE HeightBalanced(_)
HeightBalanced(node) ==
    IF IsNull(node) THEN TRUE
    ELSE /\ node.height = TrueHeight(node)
         /\ TrueHeight(node.left) - TrueHeight(node.right) \in {-1, 0, 1}
         /\ HeightBalanced(node.left)
         /\ HeightBalanced(node.right)

\* Every entry of the left subtree is below the node's and every entry of the
\* right subtree above it, at every node.
RECURSIVE SearchOrdered(_)
SearchOrdered(node) ==
    IF IsNull(node) THEN TRUE
    ELSE /\ \A i \in DOMAIN inOrder(node.left) : Less(inOrder(node.left)[i], node.data)
         /\ \A i \in DOMAIN inOrder(node.right) : Less(node.data, inOrder(node.right)[i])
         /\ SearchOrdered(node.left)
         /\ SearchOrdered(node.right)

\* C33: the ranking tree is a binary search tree on (elo, playerId), is
\* height-balanced with correct stored heights, and size() is the number of
\* entries stored.
AvlValid ==
    \A g \in Games :
        /\ SearchOrdered(trees[g].root)
        /\ HeightBalanced(trees[g].root)
        /\ TreeSize(trees[g]) = Len(inOrder(trees[g].root))

\* Inserts have stored all eight values: the tree has four levels, and its
\* root is not the smallest or the largest entry, as rotations arranged it.
EightEntriesStored ==
    /\ last.op = "insert"
    /\ TreeSize(trees["pingpong"]) = Cardinality(TreeValues)
    /\ TrueHeight(trees["pingpong"].root) = 4
    /\ ~IsNull(trees["pingpong"].root.left)
    /\ ~IsNull(trees["pingpong"].root.right)

\* The sequence without its first entry equal to id.
WithoutFirst(seq, id) ==
    {SubSeq(seq, 1, i - 1) \o SubSeq(seq, i + 1, Len(seq)) :
        i \in {k \in 1..Len(seq) : seq[k] = id /\ \A j \in 1..(k - 1) : seq[j] # id}}

\* C34: the linked list is a FIFO sequence: the entries linked from frontNode
\* are those enqueued and not yet taken out, in enqueue order; size() is their
\* number and rearNode is the last node; dequeue hands out the first entry;
\* remove takes out the first entry with the id and nothing else.
QueueIsFifo ==
    /\ [](/\ listFrom(last.list, last.list.frontNode) = queues["pingpong"]
          /\ last.list.queueSize = Len(queues["pingpong"])
          /\ Cardinality(DOMAIN last.list.nodes) = last.list.queueSize
          /\ IF last.list.frontNode = 0 THEN last.list.rearNode = 0
             ELSE /\ last.list.rearNode \in DOMAIN last.list.nodes
                  /\ last.list.nodes[last.list.rearNode].next = 0)
    /\ [][/\ last'.op = "dequeue" =>
               IF Len(queues["pingpong"]) = 0 THEN ~last'.ret
               ELSE /\ last'.ret
                    /\ last'.outValue = Head(queues["pingpong"])
                    /\ listFrom(last'.list, last'.list.frontNode)
                         = Tail(queues["pingpong"])
          /\ last'.op = "remove" =>
               IF WithoutFirst(queues["pingpong"], last'.value) = {}
               THEN /\ ~last'.ret
                    /\ listFrom(last'.list, last'.list.frontNode) = queues["pingpong"]
               ELSE /\ last'.ret
                    /\ listFrom(last'.list, last'.list.frontNode)
                         \in WithoutFirst(queues["pingpong"], last'.value)
          /\ last'.op = "enqueue" =>
               listFrom(last'.list, last'.list.frontNode)
                 = Append(queues["pingpong"], last'.value)]_vars

\* remove has just unlinked the only entry with the id from a queue of three:
\* the two entries left are the front and the rear node.
EntryRemoved ==
    /\ last.op = "remove" /\ last.ret
    /\ Len(queues["pingpong"]) = 2
    /\ ~QueueContains(queues["pingpong"], last.value)
    /\ last.list.rearNode # 0
    /\ last.list.nodes[last.list.frontNode].next = last.list.rearNode

\* C35: a player's isInMatch flag is set exactly when some uncompleted match
\* has the player as a participant, so the inMatch flag and the activeMatchId
\* of the status answer agree.
InMatchAgrees ==
    \A p \in DOMAIN players :
        players[p].isInMatch <=> ActiveMatchesOf(State, p) # {}

\* C36: a human chosen as the opponent (player2) of a match just created was
\* in the queue of the match's game before the step and is not in it after.
HumanOpponentFromQueue ==
    [][\A id \in DOMAIN matches' \ DOMAIN matches :
         \A b \in {matches'[id].player2Id} :
           ~players[b].isBot =>
               /\ QueueContains(queues[matches'[id].gameName], b)
               /\ ~QueueContains(queues'[matches'[id].gameName], b)]_vars

\* C37: a game's ranking tree holds at most one entry per player id.
OneTreeEntryPerPlayer ==
    \A g \in Games :
        \A e1, e2 \in TreeEntries(trees[g]) :
            e1.playerId = e2.playerId => e1 = e2

\* C38: a joinQueue that succeeds, followed at once by leaveQueue for the same
\* player and game, leaves the queues, every player's flags and the contents
\* of the game's ranking tree as they were before the join.
JoinThenLeaveRestores ==
    \A p \in HumanIds, g \in Games :
        \A j \in {joinQueue(State, p, g)} :
            j.ret =>
                \A l \in {leaveQueue(j.st, p, g)} :
                    /\ l.ret
                    /\ l.st.queues = queues
                    /\ \A q \in DOMAIN players :
                          /\ l.st.players[q].isInQueue = players[q].isInQueue
                          /\ l.st.players[q].isInMatch = players[q].isInMatch
                    /\ inOrder(l.st.trees[g].root) = inOrder(trees[g].root)

\* C39: when a game's queue is not empty, its front entry is a human and some
\* bot registered for the game is out of a match, tryCreateMatch for the game
\* returns the id of a match that holds the front player.
FrontHumanGetsMatch ==
    \A g \in Games :
        (/\ Len(queues[g]) > 0
         /\ ~players[Head(queues[g])].isBot
         /\ \E i \in DOMAIN gameBots[g] : ~players[gameBots[g][i]].isInMatch)
        => \A r \in {tryCreateMatch(State, g)} :
              /\ r.ret # -1
              /\ r.ret \in DOMAIN r.st.matches
              /\ r.ret \notin DOMAIN matches
              /\ Head(queues[g]) \in Participants(r.st.matches[r.ret])

\* tryCreateMatch has just matched a human with a bot, another human is now
\* at the front of the queue, and of the game's bots some are in a match and
\* some are not.
FrontWaitsBesideBusyBot ==
    /\ last.op = "tryCreateMatch" /\ last.ok
    /\ players[matches[last.ret].player2Id].isBot
    /\ \A g \in {matches[last.ret].gameName} :
          /\ Len(queues[g]) >= 1
          /\ ~players[Head(queues[g])].isBot
          /\ \E b \in PoolOf(g) : players[b].isInMatch
          /\ \E b \in PoolOf(g) : ~players[b].isInMatch

====
